---- MODULE Spec2Model ----
(***************************************************************************)
(* The JOS kernel monitor (kern/monitor.c): the console loop, the command  *)
(* tokenizer and dispatcher runcmd, and the command handlers mon_help,     *)
(* mon_kerninfo, mon_backtrace, mon_chcolor, mon_continue and mon_si.      *)
(*                                                                         *)
(* Characters are their ASCII codes, a C string is a sequence of codes     *)
(* closed by 0, and a pointer into the line buffer is a 1-based index of   *)
(* the buffer (0 is the null pointer).  Stack words are 32 bits wide.      *)
(***************************************************************************)
EXTENDS Integers, Sequences, FiniteSets, TLC

VARIABLES
    pc,              \* where control is: start, prompt, parse, lookup, backtrace,
                     \* returned (runcmd has returned to monitor), resumed, panic, exited
    session,         \* number of the console session (entries into monitor)
    tf,              \* monitor's argument: 0 (NULL) or the address of the trap frame
    tfmem,           \* the trap frame storage of the trap subsystem
    CGA_COLOR_MASK,  \* the shared display attribute (int16_t)
    image,           \* the frame chain the stack was laid out from, and its kind
    mem,             \* the kernel stack: byte address -> 32-bit word
    ebp0,            \* the frame pointer read_ebp() returns inside mon_backtrace
    line,            \* the line readline returned, as it was read
    buf,             \* runcmd: the line buffer, closed by 0, overwritten in place
    p,               \* runcmd: the pointer buf
    argc,            \* runcmd: argc
    argv,            \* runcmd: argv, on the indices written so far
    ebp,             \* mon_backtrace: ebp
    walk,            \* mon_backtrace: iterations of the loop so far, up to MaxWalk
    rd,              \* mon_backtrace: the addresses the last iteration read
    funnw,           \* mon_backtrace: the indices of funn the last iteration wrote
    eof,             \* whether the last readline returned NULL
    out,             \* the cprintf calls since the last prompt (of a backtrace,
                     \* those of its first MaxWalk iterations)
    called,          \* the handlers runcmd invoked for this line
    popped,          \* the env_pop_tf calls of this session
    ret              \* the status runcmd returned for this line: <<>> or <<status>>

vars == <<pc, session, tf, tfmem, CGA_COLOR_MASK, image, mem, ebp0, line, buf, p, argc,
          argv, ebp, walk, rd, funnw, eof, out, called, popped, ret>>

(***************************************************************************)
(* Bounds of the model.                                                    *)
(***************************************************************************)
\* the longest line of the free-form tokenizer inputs
MaxLineLen == 4
\* long lines hold up to MAXARGS + MaxOver tokens
MaxOver == 1
\* the longest well-formed frame chain
MaxFrames == 3
\* console sessions (entries into monitor) per behaviour
MaxSessions == 2

(***************************************************************************)
(* Program constants.                                                      *)
(***************************************************************************)
MAXARGS == 16
\* the separators without the tab
WhitespaceNoTab == <<13, 10, 32>>

\* WHITESPACE "\t\r\n "
WHITESPACE == <<9, 13, 10, 32>>
\* the single-step bit of eflags
FL_TF == 256
NULL == 0

\* the cprintf call with format fmt and arguments args
Cprintf(fmt, args) == [fmt |-> fmt, args |-> args]

(***************************************************************************)
(* The command table.  Names are ASCII strings.                            *)
(***************************************************************************)
commands ==
    << [name |-> <<104, 101, 108, 112>>,
        desc |-> "Display this list of commands", func |-> "mon_help"],
       [name |-> <<107, 101, 114, 110, 105, 110, 102, 111>>,
        desc |-> "Display information about the kernel", func |-> "mon_kerninfo"],
       [name |-> <<98, 97, 99, 107, 116, 114, 97, 99, 101>>,
        desc |-> "Trace the stack and call hierarchy", func |-> "mon_backtrace"],
       [name |-> <<99, 104, 99, 111, 108, 111, 114>>,
        desc |-> "Change the default display color", func |-> "mon_chcolor"],
       [name |-> <<99, 111, 110, 116, 105, 110, 117, 101>>,
        desc |-> "Continue from a breakpoint", func |-> "mon_continue"],
       [name |-> <<115, 105>>,
        desc |-> "Continue from a breakpoint with single step", func |-> "mon_si"] >>

NCOMMANDS == Len(commands)

(***************************************************************************)
(* The C string functions runcmd and mon_chcolor use.                      *)
(***************************************************************************)
\* strchr(s, c): the 1-based place of c in the string s, whose closing 0
\* counts as a character of s; 0 (NULL) when c is not in s
strchr(s, c) ==
    IF \E i \in 1..Len(s) : s[i] = c
    THEN CHOOSE i \in 1..Len(s) : s[i] = c /\ \A j \in 1..(i-1) : s[j] # c
    ELSE IF c = 0 THEN Len(s) + 1 ELSE NULL

\* the C string at pointer q of buffer b: the characters before the first 0
CStr(b, q) ==
    LET e == CHOOSE e \in q..Len(b) : b[e] = 0 /\ \A j \in q..(e - 1) : b[j] # 0
    IN  SubSeq(b, q, e - 1)

\* strlen of a C string given by its characters
strlen(s) == Len(s)

RECURSIVE strcmpPrefix(_, _)
\* a comparison that stops at the end of s: equal when s is a prefix of t
strcmpPrefix(s, t) ==
    IF s = <<>> THEN 0
    ELSE IF t = <<>> THEN Head(s)
    ELSE IF Head(s) # Head(t) THEN Head(s) - Head(t)
    ELSE strcmpPrefix(Tail(s), Tail(t))

RECURSIVE strcmp(_, _)
\* strcmp of two C strings given by their characters: 0 when equal
strcmp(s, t) ==
    LET a == IF s = <<>> THEN 0 ELSE Head(s)
        b == IF t = <<>> THEN 0 ELSE Head(t)
    IN  IF a # b THEN a - b
        ELSE IF a = 0 THEN 0
        ELSE strcmp(Tail(s), Tail(t))

(***************************************************************************)
(* runcmd, lines 164-183: the tokenizer.                                   *)
(***************************************************************************)
RECURSIVE GobbleNoTerminate(_, _)
\* the separators skipped but not overwritten
GobbleNoTerminate(b, q) ==
    IF b[q] # 0 /\ strchr(WHITESPACE, b[q]) # NULL
    THEN GobbleNoTerminate(b, q + 1)
    ELSE [buf |-> b, p |-> q]

RECURSIVE Gobble(_, _)
\* while (*buf && strchr(WHITESPACE, *buf)) *buf++ = 0;
Gobble(b, q) ==
    IF b[q] # 0 /\ strchr(WHITESPACE, b[q]) # NULL
    THEN Gobble([b EXCEPT ![q] = 0], q + 1)
    ELSE [buf |-> b, p |-> q]

RECURSIVE ScanArg(_, _)
\* while (*buf && !strchr(WHITESPACE, *buf)) buf++;
ScanArg(b, q) ==
    IF b[q] # 0 /\ strchr(WHITESPACE, b[q]) = NULL
    THEN ScanArg(b, q + 1)
    ELSE q

\* a test that never finds too many arguments
TooManyNever(n) == FALSE

\* the test against MAXARGS itself
TooManyOffByOne(n) == n = MAXARGS

\* if (argc == MAXARGS-1): the test that rejects the line
TooMany(n) == n = MAXARGS - 1

\* a loop that goes on only on a positive status
AfterStatusNonPositive(r) == IF r <= 0 THEN "exited" ELSE "prompt"

\* if (runcmd(buf, tf) < 0) break: where monitor goes on a status
AfterStatus(r) == IF r < 0 THEN "exited" ELSE "prompt"

(***************************************************************************)
(* Machine arithmetic.                                                     *)
(***************************************************************************)
\* Words are unsigned 32-bit values.  Every word of the model is below 2^31
\* - 32, so that the sums ebp+4 .. ebp+24 do not wrap and the difference
\* eip - info.eip_fn_addr, taken modulo 2^32 and printed with %d, is the
\* integer difference.

\* the value an int has once stored in an int16_t
ToInt16(x) == LET m == x % 65536 IN IF m >= 32768 THEN m - 65536 ELSE m

RECURSIVE BitOr(_, _)
\* a | b on naturals
BitOr(a, b) ==
    IF a = 0 THEN b
    ELSE IF b = 0 THEN a
    ELSE (IF a % 2 = 1 \/ b % 2 = 1 THEN 1 ELSE 0) + 2 * BitOr(a \div 2, b \div 2)

RECURSIVE BitAnd(_, _)
\* a & b on naturals
BitAnd(a, b) ==
    IF a = 0 \/ b = 0 THEN 0
    ELSE (IF a % 2 = 1 /\ b % 2 = 1 THEN 1 ELSE 0) + 2 * BitAnd(a \div 2, b \div 2)

\* a & ~b on naturals
BitAndNot(a, b) == a - BitAnd(a, b)

(***************************************************************************)
(* mon_help and mon_kerninfo.                                              *)
(***************************************************************************)
\* the variables a handler other than mon_backtrace leaves alone
NoWalk == UNCHANGED <<ebp, walk, rd, funnw>>

\* the loop of mon_help stopping one entry early
mon_help_short(n, av, t) ==
    /\ out' = out \o [i \in 1..(NCOMMANDS - 1) |->
                        Cprintf("%s - %s\n", <<commands[i].name, commands[i].desc>>)]
    /\ ret' = <<0>>
    /\ pc' = "returned"
    /\ NoWalk
    /\ UNCHANGED <<CGA_COLOR_MASK, tfmem, popped>>

mon_help(n, av, t) ==
    /\ out' = out \o [i \in 1..NCOMMANDS |->
                        Cprintf("%s - %s\n", <<commands[i].name, commands[i].desc>>)]
    /\ ret' = <<0>>
    /\ pc' = "returned"
    /\ NoWalk
    /\ UNCHANGED <<CGA_COLOR_MASK, tfmem, popped>>

\* the addresses are the linker's symbols, kept symbolic
mon_kerninfo(n, av, t) ==
    /\ out' = out \o
          << Cprintf("Special kernel symbols:\n", <<>>),
             Cprintf("  _start                  %08x (phys)\n", <<"_start">>),
             Cprintf("  entry  %08x (virt)  %08x (phys)\n", <<"entry", "entry - KERNBASE">>),
             Cprintf("  etext  %08x (virt)  %08x (phys)\n", <<"etext", "etext - KERNBASE">>),
             Cprintf("  edata  %08x (virt)  %08x (phys)\n", <<"edata", "edata - KERNBASE">>),
             Cprintf("  end    %08x (virt)  %08x (phys)\n", <<"end", "end - KERNBASE">>),
             Cprintf("Kernel executable memory footprint: %dKB\n",
                     <<"ROUNDUP(end - entry, 1024) / 1024">>) >>
    /\ ret' = <<0>>
    /\ pc' = "returned"
    /\ NoWalk
    /\ UNCHANGED <<CGA_COLOR_MASK, tfmem, popped>>

(***************************************************************************)
(* mon_chcolor.                                                            *)
(***************************************************************************)
\* the background switch with the foreground's value for w
ColorBgWhiteFt(c) ==
    CASE c = 114 -> 64
      [] c = 103 -> 32
      [] c = 98  -> 16
      [] c = 119 -> 7
      [] OTHER   -> 0

\* switch(argv[1][0]): r, g, b, w
ColorBg(c) ==
    CASE c = 114 -> 64
      [] c = 103 -> 32
      [] c = 98  -> 16
      [] c = 119 -> 112
      [] OTHER   -> 0

\* switch(argv[1][1]): r, g, b, w
ColorFt(c) ==
    CASE c = 114 -> 4
      [] c = 103 -> 2
      [] c = 98  -> 1
      [] c = 119 -> 7
      [] OTHER   -> 0

\* (bg|ft)<<8 as stored in the int16_t CGA_COLOR_MASK, for argv[1] = b + q
ColorMask(b, q) == ToInt16(BitOr(ColorBg(b[q]), ColorFt(b[q + 1])) * 256)

\* the tests taken as lower bounds
ChcolorBranchLoose(n, av) ==
    IF n < 2 THEN "argc"
    ELSE IF strlen(CStr(buf, av[1])) > 2 THEN "length"
    ELSE "store"

\* the branch mon_chcolor takes: the two tests of lines 93 and 97
ChcolorBranch(n, av) ==
    IF n # 2 THEN "argc"
    ELSE IF strlen(CStr(buf, av[1])) # 2 THEN "length"
    ELSE "store"

mon_chcolor(n, av, t) ==
    LET br == ChcolorBranch(n, av) IN
    /\ CGA_COLOR_MASK' = IF br = "store" THEN ColorMask(buf, av[1])
                         ELSE CGA_COLOR_MASK
    /\ out' = out \o
              (CASE br = "argc"   -> <<Cprintf("Argument number error\n", <<>>)>>
                 [] br = "length" -> <<Cprintf("Argument error", <<>>)>>
                 [] OTHER         -> <<>>)
              \o <<Cprintf("Color changed\n", <<>>)>>
    /\ ret' = <<0>>
    /\ pc' = "returned"
    /\ NoWalk
    /\ UNCHANGED <<tfmem, popped>>

(***************************************************************************)
(* mon_continue and mon_si.  env_pop_tf(tf) restores the trap frame and    *)
(* does not return: popped records the frame as it is at the call.         *)
(***************************************************************************)
\* env_pop_tf(t) with the trap frame holding frame
env_pop_tf(t, frame) ==
    /\ popped' = Append(popped, [tf |-> t, frame |-> frame])
    /\ pc' = "resumed"
    /\ ret' = ret

\* the mask applied without the complement
ClearTFNoComplement(frame) == [frame EXCEPT !.tf_eflags = BitAnd(@, FL_TF)]

\* tf->tf_eflags &= ~FL_TF
ClearTF(frame) == [frame EXCEPT !.tf_eflags = BitAndNot(@, FL_TF)]

\* the flags assigned instead of or-ed
SetTFAssign(frame) == [frame EXCEPT !.tf_eflags = FL_TF]

\* tf->tf_eflags |= FL_TF
SetTF(frame) == [frame EXCEPT !.tf_eflags = BitOr(@, FL_TF)]

\* mon_continue without its call of env_pop_tf: the flag is cleared and the
\* handler returns 0 to runcmd
mon_continue_noresume(n, av, t) ==
    IF t = NULL
    THEN /\ out' = Append(out, Cprintf("Not a breakpoint\n", <<>>))
         /\ ret' = <<0>>
         /\ pc' = "returned"
         /\ NoWalk
         /\ UNCHANGED <<CGA_COLOR_MASK, tfmem, popped>>
    ELSE /\ tfmem' = ClearTF(tfmem)
         /\ ret' = <<0>>
         /\ pc' = "returned"
         /\ NoWalk
         /\ UNCHANGED <<CGA_COLOR_MASK, out, popped>>

mon_continue(n, av, t) ==
    IF t = NULL
    THEN /\ out' = Append(out, Cprintf("Not a breakpoint\n", <<>>))
         /\ ret' = <<0>>
         /\ pc' = "returned"
         /\ NoWalk
         /\ UNCHANGED <<CGA_COLOR_MASK, tfmem, popped>>
    ELSE /\ tfmem' = ClearTF(tfmem)
         /\ env_pop_tf(t, tfmem')
         /\ NoWalk
         /\ UNCHANGED <<CGA_COLOR_MASK, out>>

\* mon_si without the test of tf
mon_si_nocheck(n, av, t) ==
    /\ out' = Append(out, Cprintf("Single Step\n", <<>>))
    /\ tfmem' = SetTF(tfmem)
    /\ env_pop_tf(t, tfmem')
    /\ NoWalk
    /\ UNCHANGED CGA_COLOR_MASK

mon_si(n, av, t) ==
    IF t = NULL
    THEN /\ out' = Append(out, Cprintf("Not a breakpoint\n", <<>>))
         /\ ret' = <<0>>
         /\ pc' = "returned"
         /\ NoWalk
         /\ UNCHANGED <<CGA_COLOR_MASK, tfmem, popped>>
    ELSE /\ out' = Append(out, Cprintf("Single Step\n", <<>>))
         /\ tfmem' = SetTF(tfmem)
         /\ env_pop_tf(t, tfmem')
         /\ NoWalk
         /\ UNCHANGED CGA_COLOR_MASK

(***************************************************************************)
(* The kernel stack.  A frame is eight words: the saved frame pointer at   *)
(* fp, the return address at fp+4, five argument words at fp+8 .. fp+24.   *)
(***************************************************************************)
StackLo == 4 * 1024
FrameBytes == 8 * 4
\* the frames the stack has room for
StackFrames == MaxFrames + 1
StackAddrs == { StackLo + 4 * i : i \in 0..(8 * StackFrames - 1) }
\* a frame pointer beyond the top of the stack
OutsidePtr == StackLo + FrameBytes * StackFrames + 64
\* what an unused stack word holds
Filler == 43690 * 16384
\* the words a read outside the stack may deliver
OobWords == {0, StackLo + FrameBytes}

(***************************************************************************)
(* The resolver debuginfo_eip (kern/kdebug.c): for an address inside a     *)
(* known function, status 0 and the function's identification; otherwise   *)
(* a negative status and the "<unknown>" placeholder.  eip_fn_name is not  *)
(* closed by 0 after the name: eip_fn_namelen gives the name's length.     *)
(***************************************************************************)
Funcs ==
    << [file |-> "kern/monitor.c", line0 |-> 157, addr |-> 256, size |-> 64, namelen |-> 6,
        name |-> <<114, 117, 110, 99, 109, 100, 58, 102, 40, 48, 44, 49, 41>>],
       [file |-> "kern/monitor.c", line0 |-> 196, addr |-> 320, size |-> 64, namelen |-> 7,
        name |-> <<109, 111, 110, 105, 116, 111, 114, 58, 70, 40, 48, 44, 50, 41>>],
       [file |-> "kern/init.c", line0 |-> 24, addr |-> 384, size |-> 64, namelen |-> 9,
        name |-> <<105, 51, 56, 54, 95, 105, 110, 105, 116, 58, 70>>] >>

\* char funn[100]
FunnSize == 100

\* two functions with long names: one of FunnSize - 1 characters, which
\* funn holds with its closing 0, and one of FunnSize characters
LongFuncs ==
    << [file |-> "kern/init.c", line0 |-> 60, addr |-> 448, size |-> 64,
        namelen |-> FunnSize - 1,
        name |-> [i \in 1..(FunnSize - 1) |-> 97] \o <<58, 70>>],
       [file |-> "kern/init.c", line0 |-> 80, addr |-> 512, size |-> 64,
        namelen |-> FunnSize,
        name |-> [i \in 1..FunnSize |-> 98] \o <<58, 70>>] >>

\* the functions the resolver knows
SymTab == Funcs \o LongFuncs

\* "<unknown>"
UnknownName == <<60, 117, 110, 107, 110, 111, 119, 110, 62>>

debuginfo_eip(addr) ==
    IF \E i \in 1..Len(SymTab) : addr \in SymTab[i].addr..(SymTab[i].addr + SymTab[i].size - 1)
    THEN LET f == SymTab[CHOOSE i \in 1..Len(SymTab) :
                        addr \in SymTab[i].addr..(SymTab[i].addr + SymTab[i].size - 1)]
         IN  [rc |-> 0,
              info |-> [eip_file |-> f.file, eip_line |-> f.line0 + (addr - f.addr) \div 8,
                        eip_fn_name |-> f.name, eip_fn_namelen |-> f.namelen,
                        eip_fn_addr |-> f.addr]]
    ELSE [rc |-> -1,
          info |-> [eip_file |-> "<unknown>", eip_line |-> 0,
                    eip_fn_name |-> UnknownName, eip_fn_namelen |-> Len(UnknownName),
                    eip_fn_addr |-> addr]]

(***************************************************************************)
(* Stack images.  Chain(n, u) is a chain of n frames, innermost first,     *)
(* whose frame u (when 1 <= u <= n) holds a return address the resolver    *)
(* does not know.                                                          *)
(***************************************************************************)
FrameAt(k) == StackLo + FrameBytes * (k - 1)
GoodRet(k) == Funcs[((k - 1) % Len(Funcs)) + 1].addr + 8 * k + 3
BadRet(k) == 16 + k

Chain(n, u) ==
    [k \in 1..n |-> [fp |-> FrameAt(k),
                     next |-> IF k < n THEN FrameAt(k + 1) ELSE 0,
                     eip |-> IF k = u THEN BadRet(k) ELSE GoodRet(k),
                     args |-> [j \in 1..5 |-> 16 * k + j]]]

\* the stack holding the frames of c
MemOf(c) ==
    [a \in StackAddrs |->
        IF \E k \in 1..Len(c) : a \in c[k].fp..(c[k].fp + 24)
        THEN LET k == CHOOSE k \in 1..Len(c) : a \in c[k].fp..(c[k].fp + 24)
                 o == (a - c[k].fp) \div 4
             IN  IF o = 0 THEN c[k].next
                 ELSE IF o = 1 THEN c[k].eip
                 ELSE c[k].args[o - 1]
        ELSE Filler]

\* a well-formed chain ends in a zero frame pointer
WellFormed(n, u) ==
    [kind |-> "wellformed", chain |-> Chain(n, u),
     ebp0 |-> IF n = 0 THEN 0 ELSE FrameAt(1), mem |-> MemOf(Chain(n, u))]

\* the last of two frames points back to the first
CyclicChain == [Chain(2, 0) EXCEPT ![2].next = FrameAt(1)]
Cyclic ==
    [kind |-> "cyclic", chain |-> CyclicChain, ebp0 |-> FrameAt(1), mem |-> MemOf(CyclicChain)]

\* the first frame saves a frame pointer outside the stack; the second is
\* a frame of the stack that nothing points to
OutsideChain == [Chain(2, 0) EXCEPT ![1].next = OutsidePtr]
Outside ==
    [kind |-> "outside", chain |-> OutsideChain, ebp0 |-> FrameAt(1), mem |-> MemOf(OutsideChain)]

\* two frames whose return addresses lie in the functions with long names
LongNameChain ==
    [k \in 1..2 |-> [Chain(2, 0)[k] EXCEPT !.eip = LongFuncs[k].addr + 8 * k + 3]]
LongName ==
    [kind |-> "longname", chain |-> LongNameChain, ebp0 |-> FrameAt(1),
     mem |-> MemOf(LongNameChain)]

\* a frame pointer one word below the stack: the slot of the saved frame
\* pointer is outside, the six words above it are the stack's
BelowStack ==
    [kind |-> "below", chain |-> Chain(2, 0), ebp0 |-> StackLo - 4,
     mem |-> MemOf(Chain(2, 0))]

\* the last two words of the stack hold a zero frame pointer and a return
\* address, and the frame pointer points to them: the argument words are
\* outside
StackTop == StackLo + FrameBytes * StackFrames
AtTop ==
    [kind |-> "attop", chain |-> Chain(1, 0), ebp0 |-> StackTop - 8,
     mem |-> [MemOf(Chain(1, 0)) EXCEPT ![StackTop - 8] = 0,
                                        ![StackTop - 4] = GoodRet(1)]]

\* the same frame pointer, below a return address in the function whose
\* name funn does not hold
BelowStackLong ==
    [kind |-> "belowlong", chain |-> Chain(2, 0), ebp0 |-> StackLo - 4,
     mem |-> [MemOf(Chain(2, 0)) EXCEPT ![StackLo] = LongFuncs[2].addr + 19]]

WellFormedImages == { WellFormed(n, u) : n \in 0..MaxFrames, u \in 0..MaxFrames }
AllImages ==
    WellFormedImages \cup {Cyclic, Outside, LongName, BelowStack, BelowStackLong, AtTop}

(***************************************************************************)
(* mon_backtrace.                                                          *)
(***************************************************************************)
\* the loop of mon_backtrace has no bound; walk counts its iterations up to
\* MaxWalk, and out takes the cprintf calls of that many iterations (more
\* than the stack has room for frames)
MaxWalk == 6

mon_backtrace(n, av, t) ==
    /\ out' = Append(out, Cprintf("Stack backtrace:\n", <<>>))
    /\ ebp' = ebp0
    /\ walk' = 0
    /\ rd' = {}
    /\ funnw' = {}
    /\ pc' = "backtrace"
    /\ ret' = ret
    /\ UNCHANGED <<CGA_COLOR_MASK, tfmem, popped>>

\* the arguments taken one word too high
FrameWordsShifted(fp) == [i \in 0..6 |-> IF i < 2 THEN fp + 4 * i ELSE fp + 4 * i + 4]

\* the seven words at ebp, ebp+4, .., ebp+24
FrameWords(fp) == [i \in 0..6 |-> fp + 4 * i]

\* the words a read of the addresses ad may deliver: the stack's contents
\* inside the stack, any word outside
Loads(ad) ==
    IF \A i \in 0..6 : ad[i] \in DOMAIN mem
    THEN { [i \in 0..6 |-> mem[ad[i]]] }
    ELSE { [i \in 0..6 |-> IF ad[i] \in DOMAIN mem THEN mem[ad[i]] ELSE g[i]] :
             g \in [0..6 -> OobWords] }

\* the indices of funn lines 77-79 write: 0 .. eip_fn_namelen - 1 with the
\* characters of the name, eip_fn_namelen with the closing 0
FunnWrites(info) == 0..info.eip_fn_namelen

\* whether these writes stay inside char funn[100]
FunnHolds(info) == \A i \in FunnWrites(info) : i < FunnSize

\* funn after lines 77-79, read as a C string
Funn(info) ==
    LET b == [i \in 1..(info.eip_fn_namelen + 1) |->
                IF i <= info.eip_fn_namelen THEN info.eip_fn_name[i] ELSE 0]
    IN  CStr(b, 1)

\* a walk that gives up when the resolver fails
WalkNextAbort(rc, saved) == IF rc < 0 THEN 0 ELSE saved

\* line 84, ebp = *(unsigned*)ebp: the status rc of debuginfo_eip plays no part
WalkNext(rc, saved) == saved

\* the bytes lines 77-79 write behind funn, funn[FunnSize] first: the
\* characters of the name that did not fit, and the closing 0
PastFunn(info) ==
    [j \in 0..(info.eip_fn_namelen - FunnSize) |->
        IF FunnSize + j < info.eip_fn_namelen
        THEN info.eip_fn_name[FunnSize + j + 1] ELSE 0]

\* a 32-bit local that lies behind funn, after the bytes b were written over
\* its low end
Clobber(w, b) ==
    LET m == IF Cardinality(DOMAIN b) < 4 THEN Cardinality(DOMAIN b) ELSE 4
        low == b[0] + (IF m > 1 THEN b[1] * 256 ELSE 0)
                    + (IF m > 2 THEN b[2] * 65536 ELSE 0)
                    + (IF m > 3 THEN b[3] * 16777216 ELSE 0)
    IN  IF m = 4 THEN low ELSE (w \div (256 ^ m)) * (256 ^ m) + low

\* the two cprintf calls of one iteration at frame fp: w are the words the
\* first call reads at fp+4 .. fp+24, info is what debuginfo_eip filled in
\* and eip the local eip at line 83
FrameRecordEip(fp, w, info, eip) ==
    << Cprintf("  ebp %08x  eip %08x  args %08x %08x %08x %08x %08x\n",
               <<fp, w[1], w[2], w[3], w[4], w[5], w[6]>>),
       Cprintf("         %s:%d: %s+%d\n",
               <<info.eip_file, info.eip_line, Funn(info), eip - info.eip_fn_addr>>) >>

\* the two cprintf calls of one iteration, for the words w read at frame fp
FrameRecord(fp, w) == FrameRecordEip(fp, w, debuginfo_eip(w[1]).info, w[1])

\* the count of iterations, which stands at MaxWalk from there on
Count(k) == IF k < MaxWalk THEN k + 1 ELSE k

\* the record of the cprintf calls: it takes the calls of the first MaxWalk
\* iterations of a walk
Log(o, k, recs) == IF k < MaxWalk THEN o \o recs ELSE o

\* what the copy of lines 77-79 may do to the locals behind funn: nothing
\* when the name fits; otherwise what lies behind funn is the compiler's
\* choice: nothing that is used again, the local eip (the offset of the
\* second cprintf is taken from the overwritten eip), the local ebp (the
\* rest of the iteration works on the overwritten frame pointer), or
\* something whose loss ends the run
Harm(info) == IF FunnHolds(info) THEN {"none"} ELSE {"none", "eip", "ebp", "fatal"}

\* the locals ebp and eip at line 80, for the frame pointer fp and the
\* return address e of lines 73-75
EbpLocal(h, fp, info) == IF h = "ebp" THEN Clobber(fp, PastFunn(info)) ELSE fp
EipLocal(h, e, info) == IF h = "eip" THEN Clobber(e, PastFunn(info)) ELSE e

\* the words lines 81 and 84 read at the local ebp, w being those read at
\* the frame pointer of line 75
LoadsLocal(h, fp, info, w) ==
    IF h = "ebp" THEN Loads(FrameWords(EbpLocal(h, fp, info))) ELSE {w}

\* one iteration of while(ebp != 0)
BacktraceStep ==
    /\ pc = "backtrace"
    /\ ebp # 0
    /\ \E w \in Loads(FrameWords(ebp)) :
          /\ FunnHolds(debuginfo_eip(w[1]).info)
          /\ funnw' = FunnWrites(debuginfo_eip(w[1]).info)
          /\ out' = Log(out, walk, FrameRecord(ebp, w))
          /\ ebp' = WalkNext(debuginfo_eip(w[1]).rc, w[0])
    /\ walk' = Count(walk)
    /\ rd' = { FrameWords(ebp)[i] : i \in 0..6 }
    /\ UNCHANGED <<eof, pc, session, tf, tfmem, CGA_COLOR_MASK, image, mem, ebp0, line,
                   buf, p, argc, argv, called, popped, ret>>

\* an iteration whose copy runs past the end of funn
BacktraceOverflow ==
    /\ pc = "backtrace"
    /\ ebp # 0
    /\ \E w \in Loads(FrameWords(ebp)) :
          LET r == debuginfo_eip(w[1]) IN
          /\ ~FunnHolds(r.info)
          /\ funnw' = FunnWrites(r.info)
          /\ \E h \in Harm(r.info) :
                IF h = "fatal"
                THEN /\ pc' = "panic"
                     /\ rd' = {FrameWords(ebp)[1]}
                     /\ UNCHANGED <<out, ebp>>
                ELSE LET fp == EbpLocal(h, ebp, r.info) IN
                     /\ \E wc \in LoadsLocal(h, ebp, r.info, w) :
                           /\ out' = Log(out, walk,
                                         FrameRecordEip(fp, wc, r.info,
                                                        EipLocal(h, w[1], r.info)))
                           /\ ebp' = WalkNext(r.rc, wc[0])
                     /\ rd' = {FrameWords(ebp)[1]} \cup { FrameWords(fp)[i] : i \in 0..6 }
                     /\ pc' = pc
    /\ walk' = Count(walk)
    /\ UNCHANGED <<eof, session, tf, tfmem, CGA_COLOR_MASK, image, mem, ebp0, line,
                   buf, p, argc, argv, called, popped, ret>>

\* a read outside the stack may fault instead, and the kernel panics: at
\* line 75 (ebp+4), before anything of the iteration; at line 81 (ebp+8 ..
\* ebp+24), after the copy into funn and before the first cprintf; or at
\* line 84 (ebp+0), after both cprintf calls
BacktraceFault ==
    /\ pc = "backtrace"
    /\ ebp # 0
    /\ \/ /\ FrameWords(ebp)[1] \notin DOMAIN mem
          /\ rd' = {FrameWords(ebp)[1]}
          /\ UNCHANGED <<out, funnw>>
       \/ \E w \in Loads(FrameWords(ebp)) :
             LET r == debuginfo_eip(w[1]) IN
             /\ funnw' = FunnWrites(r.info)
             /\ \E h \in Harm(r.info) \ {"fatal"} :
                   LET fp == EbpLocal(h, ebp, r.info)
                       ad == FrameWords(fp)
                   IN  \/ /\ \E i \in 1..6 : ad[i] \notin DOMAIN mem
                          /\ rd' = {FrameWords(ebp)[1]} \cup { ad[i] : i \in 1..6 }
                          /\ UNCHANGED out
                       \/ /\ ad[0] \notin DOMAIN mem
                          /\ \E wc \in LoadsLocal(h, ebp, r.info, w) :
                                out' = Log(out, walk,
                                           FrameRecordEip(fp, wc, r.info,
                                                          EipLocal(h, w[1], r.info)))
                          /\ rd' = {FrameWords(ebp)[1]} \cup { ad[i] : i \in 0..6 }
    /\ pc' = "panic"
    /\ walk' = Count(walk)
    /\ UNCHANGED <<eof, session, tf, tfmem, CGA_COLOR_MASK, image, mem, ebp0, line,
                   buf, p, argc, argv, ebp, called, popped, ret>>

\* the loop ends at a zero frame pointer: return 0
BacktraceReturn ==
    /\ pc = "backtrace"
    /\ ebp = 0
    /\ ret' = <<0>>
    /\ pc' = "returned"
    /\ UNCHANGED <<eof, session, tf, tfmem, CGA_COLOR_MASK, image, mem, ebp0, line,
                   buf, p, argc, argv, ebp, walk, rd, funnw, out, called, popped>>

(***************************************************************************)
(* runcmd and monitor.                                                     *)
(***************************************************************************)
\* f with f[i] = v, i added to its domain when new
Store(f, i, v) == [j \in DOMAIN f \cup {i} |-> IF j = i THEN v ELSE f[j]]

\* an upper-case letter as its lower-case letter
ToLower(c) == IF c \in 65..90 THEN c + 32 ELSE c

\* a lookup that ignores the case of letters
FindCommandNoCase(s) ==
    LET low == [k \in 1..Len(s) |-> ToLower(s[k])] IN
    IF \E i \in 1..NCOMMANDS : strcmp(low, commands[i].name) = 0
    THEN CHOOSE i \in 1..NCOMMANDS : strcmp(low, commands[i].name) = 0
    ELSE 0

\* the first entry of commands whose name strcmp finds equal to s; 0 if none
FindCommand(s) ==
    IF \E i \in 1..NCOMMANDS : strcmp(s, commands[i].name) = 0
    THEN CHOOSE i \in 1..NCOMMANDS :
            /\ strcmp(s, commands[i].name) = 0
            /\ \A j \in 1..(i - 1) : strcmp(s, commands[j].name) # 0
    ELSE 0

\* commands[i].func(argc, argv, tf)
Invoke(f, n, av, t) ==
    CASE f = "mon_help"      -> mon_help(n, av, t)
      [] f = "mon_kerninfo"  -> mon_kerninfo(n, av, t)
      [] f = "mon_backtrace" -> mon_backtrace(n, av, t)
      [] f = "mon_chcolor"   -> mon_chcolor(n, av, t)
      [] f = "mon_continue"  -> mon_continue(n, av, t)
      [] f = "mon_si"        -> mon_si(n, av, t)

\* the tokens argv[0] .. argv[n-1] as strings
Tokens(b, av, n) == [k \in 1..n |-> CStr(b, av[k - 1])]

\* monitor, lines 201-205: the banner and the trap frame
Monitor ==
    /\ pc = "start"
    /\ out' = << Cprintf("Welcome to the JOS kernel monitor!\n", <<>>),
                 Cprintf("Type 'help' for a list of commands.\n", <<>>) >>
              \o (IF tf # NULL THEN << [fmt |-> "print_trapframe", args |-> <<tf>>] >>
                  ELSE <<>>)
    /\ pc' = "prompt"
    /\ UNCHANGED <<eof, session, tf, tfmem, CGA_COLOR_MASK, image, mem, ebp0, line, buf, p,
                   argc, argv, ebp, walk, rd, funnw, called, popped, ret>>

\* readline returns a line of the set L, and runcmd starts on it (lines 165-166)
ReadLine(L) ==
    /\ pc = "prompt"
    /\ \E l \in L :
          /\ line' = l
          /\ buf' = l \o <<0>>
    /\ p' = 1
    /\ argc' = 0
    /\ argv' = [i \in {0} |-> NULL]
    /\ out' = <<>>
    /\ called' = <<>>
    /\ ret' = <<>>
    /\ pc' = "parse"
    /\ eof' = FALSE
    /\ UNCHANGED <<session, tf, tfmem, CGA_COLOR_MASK, image, mem, ebp0, ebp, walk,
                   rd, funnw, popped>>

\* readline returns NULL: no command runs, the loop prompts again
ReadLineEOF ==
    /\ pc = "prompt"
    /\ eof' = TRUE
    /\ UNCHANGED <<pc, session, tf, tfmem, CGA_COLOR_MASK, image, mem, ebp0, line, buf,
                   p, argc, argv, ebp, walk, rd, funnw, out, called, popped, ret>>

\* monitor, line 210: runcmd has returned; its locals, and the record of
\* what the line did, end here
Loop ==
    /\ pc = "returned"
    /\ pc' = AfterStatus(ret[1])
    /\ line' = <<>>
    /\ buf' = <<0>>
    /\ p' = 1
    /\ argc' = 0
    /\ argv' = [i \in {0} |-> NULL]
    /\ ebp' = 0
    /\ walk' = 0
    /\ rd' = {}
    /\ funnw' = {}
    /\ out' = <<>>
    /\ called' = <<>>
    /\ ret' = <<>>
    /\ UNCHANGED <<eof, session, tf, tfmem, CGA_COLOR_MASK, image, mem, ebp0, popped>>

\* one iteration of the while (1) of lines 167-182, and line 183 at its break
ParseStep ==
    /\ pc = "parse"
    /\ LET g == Gobble(buf, p) IN
       /\ buf' = g.buf
       /\ IF g.buf[g.p] = 0
          THEN /\ argv' = Store(argv, argc, NULL)
               /\ p' = g.p
               /\ pc' = "lookup"
               /\ UNCHANGED <<argc, out, ret>>
          ELSE IF TooMany(argc)
          THEN /\ out' = Append(out, Cprintf("Too many arguments (max %d)\n", <<MAXARGS>>))
               /\ ret' = <<0>>
               /\ p' = g.p
               /\ pc' = "returned"
               /\ UNCHANGED <<argc, argv>>
          ELSE /\ argv' = Store(argv, argc, g.p)
               /\ argc' = argc + 1
               /\ p' = ScanArg(g.buf, g.p)
               /\ UNCHANGED <<pc, out, ret>>
    /\ UNCHANGED <<eof, session, tf, tfmem, CGA_COLOR_MASK, image, mem, ebp0, line, ebp,
                   walk, rd, funnw, called, popped>>

\* lines 186-193: look the command up and invoke it
Lookup ==
    /\ pc = "lookup"
    /\ IF argc = 0
       THEN /\ ret' = <<0>>
            /\ pc' = "returned"
            /\ UNCHANGED <<tfmem, CGA_COLOR_MASK, ebp, walk, rd, funnw, out, called, popped>>
       ELSE LET i == FindCommand(CStr(buf, argv[0])) IN
            IF i = 0
            THEN /\ out' = Append(out, Cprintf("Unknown command '%s'\n",
                                               <<CStr(buf, argv[0])>>))
                 /\ ret' = <<0>>
                 /\ pc' = "returned"
                 /\ UNCHANGED <<tfmem, CGA_COLOR_MASK, ebp, walk, rd, funnw, called, popped>>
            ELSE /\ called' = Append(called, [func |-> commands[i].func, argc |-> argc,
                                              argv |-> argv,
                                              args |-> Tokens(buf, argv, argc),
                                              tf |-> tf])
                 /\ Invoke(commands[i].func, argc, argv, tf)
    /\ UNCHANGED <<eof, session, tf, image, mem, ebp0, line, buf, p, argc, argv>>

(***************************************************************************)
(* Trap delivery: how monitor is entered.  From i386_init it is entered    *)
(* with tf = NULL; from a trap with the address of the trap frame.         *)
(***************************************************************************)
TrapframeAddr == StackLo + 16 * 4096
EFlags == {2, 258, 582, 838}
Trapframes == [tf_eflags : EFlags, tf_eip : {8388640}]
NoTrapframe == [tf_eflags |-> 2, tf_eip |-> 0]
Entries == {<<NULL, NoTrapframe>>} \cup { <<TrapframeAddr, f>> : f \in Trapframes }
InitMasks == {1792, 4779}

\* after env_pop_tf the program runs on; its next breakpoint or single-step
\* trap enters monitor again, with a freshly delivered trap frame
Trap ==
    /\ pc = "resumed"
    /\ session < MaxSessions
    /\ session' = session + 1
    /\ tf' = TrapframeAddr
    /\ tfmem' \in Trapframes
    /\ pc' = "start"
    /\ popped' = <<>>
    /\ out' = <<>>
    /\ called' = <<>>
    /\ ret' = <<>>
    /\ UNCHANGED <<eof, CGA_COLOR_MASK, image, mem, ebp0, line, buf, p, argc, argv, ebp,
                   walk, rd, funnw>>

\* the state monitor is entered in, for the stack images, entries and
\* display attributes given
InitWith(images, entries, masks) ==
    /\ pc = "start"
    /\ session = 1
    /\ \E e \in entries : tf = e[1] /\ tfmem = e[2]
    /\ CGA_COLOR_MASK \in masks
    /\ \E im \in images :
          /\ image = [kind |-> im.kind, chain |-> im.chain]
          /\ mem = im.mem
          /\ ebp0 = im.ebp0
    /\ line = <<>>
    /\ buf = <<0>>
    /\ p = 1
    /\ argc = 0
    /\ argv = [i \in {0} |-> NULL]
    /\ ebp = 0
    /\ walk = 0
    /\ rd = {}
    /\ funnw = {}
    /\ eof = FALSE
    /\ out = <<>>
    /\ called = <<>>
    /\ popped = <<>>
    /\ ret = <<>>

(***************************************************************************)
(* The lines readline delivers.                                            *)
(***************************************************************************)
RECURSIVE JoinWith(_, _)
\* the strings of toks, with sep between neighbours
JoinWith(toks, sep) ==
    IF toks = <<>> THEN <<>>
    ELSE IF Len(toks) = 1 THEN toks[1]
    ELSE toks[1] \o sep \o JoinWith(Tail(toks), sep)

\* n copies of the token t after the token f, single blanks between
LongLine(f, t, n, sep) == JoinWith(<<f>> \o [i \in 1..n |-> t], sep)

Names == { commands[i].name : i \in 1..NCOMMANDS }
\* Help, hel, helpx, foo, SI
OtherFirst == { <<72, 101, 108, 112>>, <<104, 101, 108>>, <<104, 101, 108, 112, 120>>,
                <<102, 111, 111>>, <<83, 73>> }
\* r g b w x R
ColorChars == {114, 103, 98, 119, 120, 82}
ColorArgs == [1..2 -> ColorChars]
             \cup { <<114>>, <<120>>, <<114, 103, 98>>, <<120, 120, 120>> }
ChcolorName == commands[4].name

CmdLines ==
    { f : f \in Names \cup OtherFirst }
    \cup { <<32, 9>> \o f \o <<13, 10>> : f \in Names \cup OtherFirst }
    \cup { f \o <<32>> \o <<49>> : f \in Names \cup OtherFirst }
ColorLines ==
    { ChcolorName \o sep \o a : a \in ColorArgs, sep \in { <<32>>, <<9, 32>> } }
    \cup { ChcolorName \o <<32>> \o a \o <<32, 98>> : a \in { <<114, 103>>, <<120>> } }
LongLines ==
    { LongLine(f, <<97>>, n, <<32>>) :
        f \in Names \cup { <<102, 111, 111>> },
        n \in (MAXARGS - 3)..(MAXARGS - 1 + MaxOver) }
    \cup { LongLine(ChcolorName, <<114, 103>>, n, <<32>>) :
             n \in (MAXARGS - 2)..(MAXARGS - 1 + MaxOver) }
BlankLines == { <<>>, <<32>>, <<9, 13, 10, 32>> }

Lines == CmdLines \cup ColorLines \cup LongLines \cup BlankLines

\* the lines of the backtrace runs
BacktraceName == commands[3].name
BTLines == { BacktraceName, <<32>> \o BacktraceName \o <<10>>,
             BacktraceName \o <<32, 49, 9, 50>> }

\* the lines of the tokenizer runs: every string over a, b and the four
\* whitespace characters up to MaxLineLen, and long lines of one-letter tokens
TokChars == {97, 98, 9, 13, 10, 32}
FreeLines == UNION { [1..k -> TokChars] : k \in 0..MaxLineLen }
LongTokLines ==
    { lead \o LongLine(<<97>>, <<98, 97>>, n, sep) \o trail :
        n \in (MAXARGS - 3)..(MAXARGS - 1 + MaxOver),
        sep \in { <<32>>, <<9, 13>> },
        lead \in { <<>>, <<10>> }, trail \in { <<>>, <<32, 32>> } }
TokLines == FreeLines \cup LongTokLines

(***************************************************************************)
(* The specifications.  Spec is a console session with every command;      *)
(* SpecBT runs backtrace over well-formed and corrupted stacks; SpecTok    *)
(* runs the tokenizer over free-form lines.                                *)
(***************************************************************************)
Init == InitWith({WellFormed(2, 0)}, Entries, InitMasks)

Next ==
    \/ Monitor
    \/ Loop
    \/ ReadLine(Lines)
    \/ ReadLineEOF
    \/ ParseStep
    \/ Lookup
    \/ BacktraceStep
    \/ BacktraceReturn
    \/ Trap

Spec == Init /\ [][Next]_vars

InitBT == InitWith(AllImages, {<<NULL, NoTrapframe>>}, {1792})

NextBT ==
    \/ Monitor
    \/ Loop
    \/ ReadLine(BTLines)
    \/ ParseStep
    \/ Lookup
    \/ BacktraceStep
    \/ BacktraceOverflow
    \/ BacktraceFault
    \/ BacktraceReturn

SpecBT == InitBT /\ [][NextBT]_vars

InitTok == InitWith({WellFormed(2, 0)}, {<<NULL, NoTrapframe>>}, {1792})

NextTok ==
    \/ Monitor
    \/ Loop
    \/ ReadLine(TokLines)
    \/ ReadLineEOF
    \/ ParseStep
    \/ Lookup

SpecTok == InitTok /\ [][NextTok]_vars

(***************************************************************************)
(* Properties of mon_backtrace, under SpecBT.                              *)
(***************************************************************************)
\* the line being run invoked mon_backtrace
InBacktrace == called # <<>> /\ called[1].func = "mon_backtrace"

\* the frame record of the frame c of a chain: its frame pointer, return
\* address and five words, then what the resolver says of the return address
ExpectedFrame(c) ==
    LET info == debuginfo_eip(c.eip).info IN
    << [fmt |-> "  ebp %08x  eip %08x  args %08x %08x %08x %08x %08x\n",
        args |-> <<c.fp, c.eip, c.args[1], c.args[2], c.args[3], c.args[4], c.args[5]>>],
       [fmt |-> "         %s:%d: %s+%d\n",
        args |-> <<info.eip_file, info.eip_line,
                   SubSeq(info.eip_fn_name, 1, info.eip_fn_namelen),
                   c.eip - info.eip_fn_addr>>] >>

RECURSIVE ExpectedFrames(_, _)
\* the records of the first n frames of the chain c, innermost first
ExpectedFrames(c, n) ==
    IF n = 0 THEN <<>> ELSE ExpectedFrames(c, n - 1) \o ExpectedFrame(c[n])

ExpectedTrace(c, n) ==
    <<[fmt |-> "Stack backtrace:\n", args |-> <<>>]>> \o ExpectedFrames(c, n)

\* C1: on a well-formed chain of N frames ending in a zero frame pointer,
\* mon_backtrace emits exactly the N frame records of the chain, innermost
\* first, each with its frame pointer, return address, five words and the
\* resolver's file, line, function name and offset, and returns 0; while it
\* walks it has emitted the records of the frames passed so far.
C1_BacktraceEmitsChain ==
    (InBacktrace /\ image.kind = "wellformed") =>
        /\ pc \in {"backtrace", "returned"}
        /\ pc = "backtrace" =>
              /\ walk <= Len(image.chain)
              /\ out = ExpectedTrace(image.chain, walk)
              /\ ebp = (IF walk < Len(image.chain) THEN image.chain[walk + 1].fp ELSE 0)
        /\ pc = "returned" =>
              /\ out = ExpectedTrace(image.chain, Len(image.chain))
              /\ ret = <<0>>

\* a backtrace of the longest chain has returned, all its records emitted
C1_Witness ==
    /\ InBacktrace
    /\ image.kind = "wellformed"
    /\ Len(image.chain) = MaxFrames
    /\ pc = "returned"
    /\ Len(out) = 1 + 2 * MaxFrames
    /\ out[2].args[1] = FrameAt(1)

\* C2: the walk is bounded and stays inside the stack: it reads no address
\* outside the stack range and runs no more iterations than the stack has
\* room for frames.
C2_WalkBoundedInStack ==
    InBacktrace => (rd \subseteq StackAddrs /\ walk <= StackFrames)

\* the resolver fails on the return address of frame k of the chain
Unresolved(k) == debuginfo_eip(image.chain[k].eip).rc < 0

\* C3: when the resolver fails on a frame's return address, the frame is
\* still emitted, with its frame pointer, return address and five words and
\* the "<unknown>" placeholder as its symbol, and every later frame of the
\* chain is emitted too: the trace has the records of all N frames.
C3_UnresolvedFrameEmitted ==
    (InBacktrace /\ image.kind = "wellformed" /\ pc = "returned") =>
        /\ Len(out) = 1 + 2 * Len(image.chain)
        /\ \A k \in 1..Len(image.chain) :
              /\ out[2 * k].args[1] = image.chain[k].fp
              /\ out[2 * k].args[2] = image.chain[k].eip
              /\ Unresolved(k) =>
                    /\ out[2 * k].args = <<image.chain[k].fp, image.chain[k].eip>>
                                         \o image.chain[k].args
                    /\ out[2 * k + 1].args[1] = "<unknown>"
                    /\ out[2 * k + 1].args[3] = UnknownName

\* a backtrace has returned whose first frame the resolver did not know
\* and whose later frames it did
C3_Witness ==
    /\ InBacktrace
    /\ image.kind = "wellformed"
    /\ pc = "returned"
    /\ Len(image.chain) = MaxFrames
    /\ Unresolved(1)
    /\ out[3].args[3] = UnknownName
    /\ Len(out) = 1 + 2 * MaxFrames

(***************************************************************************)
(* The tokens of a line, said without the tokenizer: a token is a maximal  *)
(* run of characters other than tab, CR, LF and space.                     *)
(***************************************************************************)
IsWS(c) == c \in {9, 10, 13, 32}
TokStarts(l) == { i \in 1..Len(l) : ~IsWS(l[i]) /\ (i = 1 \/ IsWS(l[i - 1])) }
NTok(l) == Cardinality(TokStarts(l))
TokStart(l, k) ==
    CHOOSE i \in TokStarts(l) : Cardinality({ j \in TokStarts(l) : j < i }) = k - 1
TokEnd(l, i) ==
    CHOOSE j \in i..Len(l) :
        /\ \A m \in i..j : ~IsWS(l[m])
        /\ j = Len(l) \/ IsWS(l[j + 1])
Token(l, k) == SubSeq(l, TokStart(l, k), TokEnd(l, TokStart(l, k)))

\* the line holds a first token, and few enough tokens to be run
Runnable(l) == NTok(l) \in 1..(MAXARGS - 1)

ContinueName == commands[5].name
SiName == commands[6].name
\* bit 8 of a flags word
HasTF(e) == (e \div 256) % 2 = 1

(***************************************************************************)
(* Properties of mon_continue, mon_si and mon_chcolor, under Spec.         *)
(***************************************************************************)
\* C4: with a trap frame, si sets the single-step bit and continue clears
\* it before env_pop_tf is called; env_pop_tf is called exactly once, with
\* the session's trap frame, whose bit has its final value at the call,
\* whatever it was before.
C4_StepBitBeforeResume ==
    [][ (pc = "lookup" /\ tf # NULL /\ Runnable(line)
           /\ Token(line, 1) \in {ContinueName, SiName}) =>
          /\ pc' = "resumed"
          /\ popped = <<>>
          /\ Len(popped') = 1
          /\ popped'[1].tf = tf
          /\ HasTF(popped'[1].frame.tf_eflags) = (Token(line, 1) = SiName)
          /\ tfmem' = popped'[1].frame ]_vars

\* si has resumed a trap frame, the bit set in the frame handed over
C4_Witness ==
    /\ pc = "resumed"
    /\ tf # NULL
    /\ Len(popped) = 1
    /\ called[1].func = "mon_si"
    /\ HasTF(popped[1].frame.tf_eflags)

\* C5: in a session entered with tf = NULL, continue and si report "Not a
\* breakpoint" and return 0, the trap frame storage keeps its contents and
\* env_pop_tf is never called.
C5_NoContextNoResume ==
    tf = NULL =>
        /\ popped = <<>>
        /\ pc # "resumed"
        /\ tfmem = NoTrapframe
        /\ (pc = "returned" /\ Runnable(line)
              /\ Token(line, 1) \in {ContinueName, SiName}) =>
                 /\ out = <<[fmt |-> "Not a breakpoint\n", args |-> <<>>]>>
                 /\ ret = <<0>>
                 /\ Len(called) = 1

\* si has returned in a session without a trap frame
C5_Witness ==
    /\ tf = NULL
    /\ pc = "returned"
    /\ called # <<>>
    /\ called[1].func = "mon_si"
    /\ out = <<[fmt |-> "Not a breakpoint\n", args |-> <<>>]>>

\* the line invokes chcolor with a wrong number of arguments or with an
\* argument that is not two characters long
BadChcolor(l) ==
    /\ Runnable(l)
    /\ Token(l, 1) = ChcolorName
    /\ NTok(l) # 2 \/ Len(Token(l, 2)) # 2

\* C6: chcolor invoked with an argument count other than one, or with an
\* argument that is not two characters long, reports an error and leaves
\* CGA_COLOR_MASK as it was.
C6_ChcolorUsageError ==
    [][ (pc = "lookup" /\ BadChcolor(line)) =>
          /\ pc' = "returned"
          /\ CGA_COLOR_MASK' = CGA_COLOR_MASK
          /\ out' # <<>>
          /\ out'[1] = [fmt |-> (IF NTok(line) # 2 THEN "Argument number error\n"
                                 ELSE "Argument error"),
                        args |-> <<>>] ]_vars

\* chcolor has returned from a one-character argument, the error reported
C6_Witness ==
    /\ pc = "returned"
    /\ BadChcolor(line)
    /\ NTok(line) = 2
    /\ Len(Token(line, 2)) = 1
    /\ called[1].func = "mon_chcolor"
    /\ out[1].fmt = "Argument error"

\* the attribute bits of a background and a foreground letter
AttrBg(c) == IF c = 114 THEN 16384 ELSE IF c = 103 THEN 8192
             ELSE IF c = 98 THEN 4096 ELSE IF c = 119 THEN 28672 ELSE 0
AttrFg(c) == IF c = 114 THEN 1024 ELSE IF c = 103 THEN 512
             ELSE IF c = 98 THEN 256 ELSE IF c = 119 THEN 1792 ELSE 0

\* C7: for a two-character argument c0 c1, chcolor stores (bg(c0)|fg(c1))<<8
\* with bg: r,g,b,w -> 0x40,0x20,0x10,0x70 and fg: r,g,b,w -> 4,2,1,7 and 0
\* for any other character; rg gives 0x4200 and xx gives 0; the value is a
\* function of the argument alone, lies in 0..32767 and has its low byte 0.
C7_ChcolorStoresMask ==
    (pc = "returned" /\ Runnable(line) /\ Token(line, 1) = ChcolorName
       /\ NTok(line) = 2 /\ Len(Token(line, 2)) = 2) =>
        LET a == Token(line, 2) IN
        /\ CGA_COLOR_MASK = AttrBg(a[1]) + AttrFg(a[2])
        /\ CGA_COLOR_MASK \in 0..32767
        /\ CGA_COLOR_MASK % 256 = 0
        /\ a = <<114, 103>> => CGA_COLOR_MASK = 16896
        /\ a = <<120, 120>> => CGA_COLOR_MASK = 0

\* chcolor rg has returned with 0x4200 stored
C7_Witness ==
    /\ pc = "returned"
    /\ called # <<>>
    /\ called[1].func = "mon_chcolor"
    /\ called[1].args = <<ChcolorName, <<114, 103>>>>
    /\ CGA_COLOR_MASK = 16896

(***************************************************************************)
(* Properties of runcmd.                                                   *)
(***************************************************************************)
TooManyMessage == [fmt |-> "Too many arguments (max %d)\n", args |-> <<16>>]

\* C8: a line of more than MAXARGS-1 tokens makes runcmd report "Too many
\* arguments" and return 0 without invoking a handler, whatever its first
\* token; the trap frame and the display attribute are unchanged and
\* monitor prompts again.
C8_TooManyArguments ==
    [][ (pc \in {"parse", "returned"} /\ NTok(line) > MAXARGS - 1) =>
          /\ called' = <<>>
          /\ UNCHANGED <<tf, tfmem, CGA_COLOR_MASK, popped>>
          /\ pc = "parse" => pc' \in {"parse", "returned"}
          /\ (pc = "parse" /\ pc' = "returned") =>
                (out' = <<TooManyMessage>> /\ ret' = <<0>>)
          /\ pc = "returned" => pc' = "prompt" ]_vars

\* runcmd has returned from a line of MAXARGS tokens that begins with help
C8_Witness ==
    /\ pc = "returned"
    /\ NTok(line) = MAXARGS
    /\ Token(line, 1) = commands[1].name
    /\ out = <<TooManyMessage>>
    /\ called = <<>>
    /\ ret = <<0>>

\* C9: for a line of at most MAXARGS-1 tokens, runcmd builds argv with one
\* entry per token, in the line's order, each the token's characters
\* unchanged; separators before, after and between tokens add no entry;
\* such a line is not rejected.
C9_TokensPreserved ==
    /\ pc = "lookup" =>
          /\ NTok(line) <= MAXARGS - 1
          /\ argc = NTok(line)
          /\ \A k \in 1..argc :
                /\ argv[k - 1] = TokStart(line, k)
                /\ CStr(buf, argv[k - 1]) = Token(line, k)
                /\ \A c \in 1..Len(Token(line, k)) : ~IsWS(Token(line, k)[c])
          /\ argv[argc] = NULL
    /\ (pc = "returned" /\ NTok(line) <= MAXARGS - 1) => out # <<TooManyMessage>>

\* a line of MAXARGS-1 tokens with a leading separator and doubled
\* separators has been tokenized
C9_Witness ==
    /\ pc = "lookup"
    /\ argc = MAXARGS - 1
    /\ IsWS(line[1])
    /\ IsWS(line[Len(line)])
    /\ argv[1] - argv[0] = 3

\* the "Unknown command" message for the token t
UnknownMessage(t) == [fmt |-> "Unknown command '%s'\n", args |-> <<t>>]

\* C10, as stated: for every line whose first token is no registered
\* command name, runcmd emits exactly one "Unknown command" message,
\* invokes no handler and returns 0.
C10_Original ==
    (pc = "returned" /\ NTok(line) >= 1 /\ Token(line, 1) \notin Names) =>
        /\ out = <<UnknownMessage(Token(line, 1))>>
        /\ called = <<>>
        /\ ret = <<0>>

\* C10, amended: for every line of at most MAXARGS-1 tokens whose first
\* token is no registered command name, runcmd emits exactly one "Unknown
\* command" message, invokes no handler and returns 0, and monitor goes on
\* to prompt again.
C10_UnknownCommand ==
    (NTok(line) >= 1 /\ Token(line, 1) \notin Names) =>
        /\ called = <<>>
        /\ pc \in {"parse", "lookup", "returned"}
        /\ (pc = "returned" /\ Runnable(line)) =>
              /\ out = <<UnknownMessage(Token(line, 1))>>
              /\ ret = <<0>>
              /\ AfterStatus(ret[1]) = "prompt"

\* runcmd has returned from the line Help
C10_Witness ==
    /\ pc = "returned"
    /\ line = <<72, 101, 108, 112>>
    /\ out = <<UnknownMessage(<<72, 101, 108, 112>>)>>
    /\ called = <<>>

(***************************************************************************)
(* Properties of the dispatch and of the console loop, under Spec.         *)
(***************************************************************************)
\* the handler registered under the name t
HandlerOf(t) == commands[CHOOSE i \in 1..NCOMMANDS : commands[i].name = t].func

\* the tokens of the line l, in order
TokensOf(l) == [k \in 1..NTok(l) |-> Token(l, k)]

\* C11, as stated: for every line whose first token is a registered command
\* name, runcmd invokes that command's handler exactly once.
C11_Original ==
    (pc = "returned" /\ NTok(line) >= 1 /\ Token(line, 1) \in Names) =>
        /\ Len(called) = 1
        /\ called[1].func = HandlerOf(Token(line, 1))

\* C11, amended: for every line of at most MAXARGS-1 tokens whose first
\* token equals a registered command name exactly and case-sensitively,
\* runcmd invokes exactly that command's handler, once, with all the tokens
\* (argc their number) and the session's tf, and returns the handler's
\* status when the handler returns; a first token that equals no name (it
\* differs in case, or is a prefix or an extension of a name) invokes no
\* handler.
C11_ExactDispatch ==
    /\ pc \in {"parse", "lookup"} => called = <<>>
    /\ (Runnable(line) /\ Token(line, 1) \in Names
          /\ pc \in {"returned", "backtrace", "resumed"}) =>
             /\ Len(called) = 1
             /\ called[1].func = HandlerOf(Token(line, 1))
             /\ called[1].argc = NTok(line)
             /\ called[1].args = TokensOf(line)
             /\ called[1].tf = tf
             /\ pc = "returned" => ret = <<0>>
    /\ (NTok(line) >= 1 /\ Token(line, 1) \notin Names) => called = <<>>

\* kerninfo has returned from a line of two tokens
C11_Witness ==
    /\ pc = "returned"
    /\ Len(called) = 1
    /\ called[1].func = "mon_kerninfo"
    /\ called[1].argc = 2
    /\ called[1].args[2] = <<49>>
    /\ ret = <<0>>

\* C12: monitor leaves its loop only on a negative status of runcmd, and
\* no command and no error gives one: monitor never returns; every status
\* is 0 and is followed by the prompt.
C12_LoopNeverExits ==
    /\ pc # "exited"
    /\ ret # <<>> => ret[1] >= 0
    /\ pc = "returned" => (ret # <<>> /\ AfterStatus(ret[1]) = "prompt")

\* a command and an error have each returned to the loop
C12_Witness ==
    /\ pc = "returned"
    /\ ret = <<0>>
    /\ called = <<>>
    /\ out # <<>>
    /\ out[1].fmt = "Unknown command '%s'\n"

\* C13: in a session with a trap frame, continue and si end in the call
\* env_pop_tf(tf) with the session's tf, and from that call on control does
\* not come back to the console loop of the session: the handler does not
\* return to runcmd, no line is read, no command runs and the trap frame
\* stays as it was handed over; monitor is next entered as a new session,
\* with a trap frame delivered anew.
C13_ResumeLeavesSession ==
    [][ /\ (pc = "lookup" /\ Runnable(line) /\ tf # NULL
              /\ Token(line, 1) \in {ContinueName, SiName}) =>
              /\ pc' = "resumed"
              /\ ret' = <<>>
              /\ Len(called') = 1
              /\ Len(popped') = 1
              /\ popped'[1].tf = tf
              /\ popped'[1].frame = tfmem'
        /\ popped # <<>> =>
              /\ pc = "resumed"
              /\ ret = <<>>
              /\ Len(popped) = 1
              /\ tfmem = popped[1].frame
        /\ pc = "resumed" =>
              /\ pc' = "start"
              /\ session' = session + 1
              /\ tf' # NULL
              /\ tfmem' \in Trapframes
              /\ popped' = <<>>
              /\ called' = <<>> ]_vars

\* a second session is at its prompt, after the first one resumed
C13_Witness ==
    /\ session = 2
    /\ pc = "prompt"
    /\ tf # NULL
    /\ popped = <<>>

\* the lines help prints: name and description of the six commands
HelpText ==
    << <<<<104, 101, 108, 112>>, "Display this list of commands">>,
       <<<<107, 101, 114, 110, 105, 110, 102, 111>>, "Display information about the kernel">>,
       <<<<98, 97, 99, 107, 116, 114, 97, 99, 101>>, "Trace the stack and call hierarchy">>,
       <<<<99, 104, 99, 111, 108, 111, 114>>, "Change the default display color">>,
       <<<<99, 111, 110, 116, 105, 110, 117, 101>>, "Continue from a breakpoint">>,
       <<<<115, 105>>, "Continue from a breakpoint with single step">> >>

\* C14: help prints one line per registered command, each of the six once,
\* in the order help, kerninfo, backtrace, chcolor, continue, si, with its
\* description, whatever arguments follow; it changes no state and
\* returns 0.
C14_HelpListsCommands ==
    [][ (pc = "lookup" /\ Runnable(line) /\ Token(line, 1) = commands[1].name) =>
          /\ pc' = "returned"
          /\ out' = [i \in 1..6 |-> [fmt |-> "%s - %s\n", args |-> HelpText[i]]]
          /\ ret' = <<0>>
          /\ UNCHANGED <<tf, tfmem, CGA_COLOR_MASK, mem, popped, session>> ]_vars

\* help has returned from a line with an argument, six lines printed
C14_Witness ==
    /\ pc = "returned"
    /\ called # <<>>
    /\ called[1].func = "mon_help"
    /\ called[1].argc = 2
    /\ Len(out) = 6
    /\ out[6].args[1] = <<115, 105>>

(***************************************************************************)
(* The symbol-name buffer of mon_backtrace, under SpecBT.                  *)
(***************************************************************************)
\* C15: mon_backtrace keeps the copy of the function name inside its
\* 100-byte buffer funn: every index it writes, the characters of the name
\* and the closing 0, is below 100.
C15_FunnWritesInBounds == \A i \in funnw : i < FunnSize

(***************************************************************************)
(* Further properties of mon_chcolor, runcmd and monitor, under Spec.      *)
(***************************************************************************)
\* C16: a chcolor usage error aborts the command once the error is
\* reported: the error is the only message, and "Color changed" is
\* printed only when a new attribute was stored.
C16_UsageErrorAborts ==
    (pc = "returned" /\ BadChcolor(line)) =>
        /\ Len(out) = 1
        /\ \A i \in 1..Len(out) : out[i].fmt # "Color changed\n"

\* C17: a line that is empty or holds only whitespace is a silent no-op:
\* runcmd prints nothing, invokes no handler, changes no state and returns
\* 0; when readline returns NULL, monitor runs no command and prompts
\* again.
C17_EmptyLineNoOp ==
    [][ /\ (pc \in {"parse", "lookup"} /\ NTok(line) = 0) =>
              /\ out' = <<>>
              /\ called' = <<>>
              /\ pc' \in {"parse", "lookup", "returned"}
              /\ pc' = "returned" => ret' = <<0>>
              /\ UNCHANGED <<tf, tfmem, CGA_COLOR_MASK, mem, popped, session>>
        /\ (~eof /\ eof') =>
              /\ pc = "prompt"
              /\ pc' = "prompt"
              /\ UNCHANGED <<line, out, called, ret, tf, tfmem, CGA_COLOR_MASK, popped,
                             session>> ]_vars

\* runcmd has returned from a line of four separators
C17_Witness ==
    /\ pc = "returned"
    /\ line = <<9, 13, 10, 32>>
    /\ out = <<>>
    /\ called = <<>>
    /\ ret = <<0>>

\* C18: runcmd aborts parsing only when the line holds more than MAXARGS
\* (16, the maximum its message reports) tokens: a line of at most 16
\* tokens, one of exactly 16 included, is tokenized and dispatched, not
\* rejected.
C18_SixteenTokensDispatched ==
    pc = "returned" =>
        /\ out = <<TooManyMessage>> => NTok(line) > MAXARGS
        /\ NTok(line) \in 1..MAXARGS =>
              \/ Len(called) = 1
              \/ out = <<UnknownMessage(Token(line, 1))>>

\* C19: while runcmd tokenizes, 0 <= argc <= MAXARGS-1 and every index of
\* argv written, for a token or for the closing null, is below MAXARGS; a
\* handler is invoked with at most MAXARGS-1 arguments, closed by a null
\* entry.
C19_ArgvInBounds ==
    /\ argc \in 0..(MAXARGS - 1)
    /\ DOMAIN argv \subseteq 0..(MAXARGS - 1)
    /\ \A k \in 0..(argc - 1) : k \in DOMAIN argv /\ argv[k] # NULL
    /\ \A i \in 1..Len(called) :
          /\ called[i].argc \in 1..(MAXARGS - 1)
          /\ DOMAIN called[i].argv \subseteq 0..(MAXARGS - 1)
          /\ called[i].argc \in DOMAIN called[i].argv
          /\ called[i].argv[called[i].argc] = NULL
          /\ Len(called[i].args) = called[i].argc

\* a handler has been invoked with 15 arguments and the null in argv[15]
C19_Witness ==
    /\ pc = "returned"
    /\ called # <<>>
    /\ called[1].argc = MAXARGS - 1
    /\ called[1].argv[MAXARGS - 1] = NULL
    /\ argc = MAXARGS - 1

\* a flags word without its bit 8
OtherBits(e) == IF HasTF(e) THEN e - 256 ELSE e

\* C20: within a session tf is the pointer monitor was entered with, and
\* it is what the handlers get; only continue and si change the trap
\* frame, and only bit 8 of its flags; only chcolor with one argument of
\* two characters changes CGA_COLOR_MASK; help, kerninfo, backtrace and
\* the error paths change neither.
C20_StateChanges ==
    [][ /\ session' = session =>
              /\ tf' = tf
              /\ tfmem'.tf_eip = tfmem.tf_eip
              /\ OtherBits(tfmem'.tf_eflags) = OtherBits(tfmem.tf_eflags)
        /\ \A i \in 1..Len(called') : called'[i].tf = tf'
        /\ (session' = session /\ tfmem' # tfmem) =>
              /\ pc = "lookup"
              /\ Runnable(line)
              /\ Token(line, 1) \in {ContinueName, SiName}
        /\ CGA_COLOR_MASK' # CGA_COLOR_MASK =>
              /\ pc = "lookup"
              /\ Runnable(line)
              /\ Token(line, 1) = ChcolorName
              /\ NTok(line) = 2
              /\ Len(Token(line, 2)) = 2 ]_vars

\* si has set bit 8 of the flags 0x246, after chcolor rg in the session
C20_Witness ==
    /\ pc = "resumed"
    /\ called # <<>>
    /\ called[1].func = "mon_si"
    /\ tfmem.tf_eflags = 838
    /\ CGA_COLOR_MASK = 16896

====
